---- MODULE Spec2Model ----
(***************************************************************************)
(* EventFlow: the event registry (listeners, observers, emit) and its      *)
(* throttle / debounce wrappers, as a state machine.                       *)
(*                                                                         *)
(* A Set of the program is a sequence without holes, in insertion order.   *)
(* A running for-of loop over a Set is an emit frame holding idx, the      *)
(* number of entries of the Set that the iterator has passed: the next     *)
(* entry it yields is entry idx+1, so entries appended during the loop are *)
(* visited and entries deleted before their turn are not (ECMAScript Set   *)
(* iterators are live).  Deleting an entry the iterator has passed lowers  *)
(* idx by one.                                                             *)
(*                                                                         *)
(* emit reads the Set of its event once and keeps the reference.  When the *)
(* key is deleted from the Map while a frame still iterates, the frame     *)
(* keeps the old Set object (det = TRUE): that object is never put back    *)
(* into the Map, receives no additions, and is empty: off deletes a key    *)
(* only when the Set it has just read from the Map is empty, and emit      *)
(* deletes the key when the Set it holds is empty, in which case the Set   *)
(* stored in the Map at that time is held by no frame (frames hold Sets    *)
(* read no later than the one held by the frame on top of them).           *)
(***************************************************************************)
EXTENDS Integers, Sequences, FiniteSets, TLC

\* ---------------------------------------------------------------- bounds
MaxListeners == 2      \* listener records created by on() in one behaviour
MaxDepth     == 2      \* nesting depth of emit calls
MaxOps       == 2      \* registry calls made from callbacks during one top-level call
Limit        == 2      \* the throttle interval used by rate-limited listeners
Delay        == 1      \* the debounce delay used by rate-limited listeners (shorter than Limit)
MaxCalls     == 3      \* calls of the wrappers made by EventUtils.throttle / debounce in one behaviour
MaxAdds      == 2      \* Events.add / Events.once calls in one behaviour

EventNames == {"e1", "e2"}
Callbacks  == {"f", "g"}
Payloads   == {"a", "b"}

Observers  == {"g"}     \* g is registered as a listener callback and as an observer

\* the inputs of the specifications with re-entrant callbacks and with timers
ReEvents      == {"e1"}
RePayloads    == {"a"}
RateEvents    == {"e1"}
RateCallbacks == {"f"}

\* edge inputs: a value that is not a function, and a negative throttle interval
NonCallable == "notAFunction"
NegInterval == -1
EdgeCallbacks == {"f", NonCallable}
EdgeObservers == {"g", NonCallable}

\* two observer functions, for the order in which observers are called
OrdObservers == {"g", "h"}

NoNamespace == "null"

\* the inputs of EventUtils.doEvent: DOM events, and what a callback throws
UtilEvents == {"click", "keydown"}
UtilErrors == {"Error", "RangeError"}
TypeError  == "TypeError"
UtilCallbacks == Callbacks \cup {NonCallable}

\* the values of Date.now() (ms) that the wrapper of EventUtils.throttle is called at
MaxNow == 2 * Limit
Clock  == 0..MaxNow

\* the inputs of the Events module: event types, targets, callbacks, and the options
\* objects passed to Events.add (0: absent throttle / debounce)
DomTypes     == {"click"}
Targets      == {"window", "document"}
DomCallbacks == {"f"}
AddOptions   == {o \in [throttle : {0, Limit}, debounce : {0, Delay}, capture : BOOLEAN] :
                     (o.throttle = 0 \/ o.debounce = 0) /\ (o.capture => o.throttle + o.debounce = 0)}
Regs         == 1..MaxAdds

\* the EventFlow instances of the specification with more than one registry
Instances == {1, 2}

\* options objects passed to on(): {once, namespace, throttle, debounce};
\* 0 stands for an absent (falsy) throttle / debounce
PlainOptions == [once : BOOLEAN, namespace : {NoNamespace}, throttle : {0}, debounce : {0}]
RateOptions  == {o \in [once : {FALSE}, namespace : {NoNamespace},
                          throttle : {0, Limit}, debounce : {0, Delay}] :
                     o.throttle # 0 \/ o.debounce # 0}

EdgeOptions  == [once : {FALSE}, namespace : {NoNamespace}, throttle : {0, NegInterval}, debounce : {0}]

VARIABLES
    listeners,   \* this.listeners: Map eventName -> Set of listener records
    observers,   \* this.observers: Map eventName -> Set of observer functions
    nextId,      \* identity of the next listener object created by on()
    inThrottle,  \* _throttle closure variable, per listener record
    timers,      \* pending setTimeout callbacks, in creation order
    stack,       \* call stack: running emit calls and timer callbacks
    lastEmit,    \* the emit call that has just ended (observation)
    lastOp,      \* "off" / "unobserve" when that call has just returned without a match (observation)
    made,        \* per listener record: the event and the record on() was called with (history)
    gone,        \* per listener record: "off" / "once" once off() / emit's once rule deleted it (history)
    unobserved,  \* <<event, observer>> pairs removed by unobserve() and not observed since
    observed,    \* per event: the observers in the order of their observe() calls, each with
                 \* whether observe() was called again for it while it was an observer (history)
    this,        \* the instance the running method was called on
    rest,        \* the other instance: its Maps, and the history of the calls made on it
    doStack,     \* the running EventUtils.doEvent calls, innermost last
    lastDo,      \* the doEvent call that has just ended (observation)
    liveEvents,  \* events.js: Map type -> array of {target, callback: handler}
    dom,         \* the event listener lists of the targets, as addEventListener keeps them
    nextReg,     \* number of the next Events.add call (identity of the wrapper it creates)
    wrappers,    \* per Events.add call: closure state of the wrapper made for it
                 \* (lastCall of throttle; the pending timer of debounce)
    added,       \* per Events.add call: its arguments, whether Events.remove was called
                 \* later with its type, target and callback, and how often its callback
                 \* was invoked through it, counted up to 2 (history)
    dlog,        \* the callbacks invoked by the last dispatch, trigger or timer, and the
                 \* number of errors it logged (observation)
    now,         \* Date.now()
    lastCall,    \* EventUtils.throttle: closure variable of the wrapper
    tlog,        \* the calls of that wrapper so far: when, with what, whether func ran (history)
    tpc,         \* "func" while func, called by the wrapper, is running
    iter,        \* one emit call seen from its for...of loop: the part of the Set the
                 \* iterator has not reached, and where the call stands
    deb,         \* the wrapper made by EventUtils.debounce: timeoutId, the host's timers
    duo,         \* one function under both throttle wrappers, called at the same times
    hist         \* per listener record: time since the last leading invocation (lead); for the
                 \* outstanding call of the debounce wrapper: time since it (call), its args,
                 \* and whether it replaced a pending timer (burst)

vars == <<listeners, observers, nextId, inThrottle, timers, stack, lastEmit, lastOp, made, gone,
          unobserved, observed, hist, this, rest, doStack, lastDo, now, lastCall, tlog, tpc,
          liveEvents, dom, nextReg, wrappers, added, dlog, iter, deb, duo>>

\* the variables of the specifications of a single wrapper or a single emit call
aside == <<iter, deb, duo>>

\* the variables of the Events module and of the targets it binds to
events == <<liveEvents, dom, nextReg, wrappers, added, dlog>>

\* the variables of the wrapper made by EventUtils.throttle
clock == <<now, lastCall, tlog, tpc>>

\* the variables of the event registry
registry == <<listeners, observers, nextId, inThrottle, timers, stack, lastEmit, lastOp, made,
              gone, unobserved, observed, hist, this, rest>>

Ids == 1..MaxListeners

\* hist of a record without an outstanding debounced call; elapsed times are
\* counted up to the interval they are compared with
NoHist == [lead |-> Limit, call |-> Delay, arg |-> "", burst |-> FALSE]
Settled(h) == [h EXCEPT !.call = Delay, !.arg = "", !.burst = FALSE]

\* ------------------------------------------------------------- Map / Set
MapSet(m, k, v) == [x \in (DOMAIN m) \cup {k} |-> IF x = k THEN v ELSE m[x]]
MapDelete(m, k) == [x \in (DOMAIN m) \ {k} |-> m[x]]
MapHas(m, k)    == k \in DOMAIN m
EmptyMap        == [x \in {} |-> <<>>]

Min(a, b) == IF a < b THEN a ELSE b
Max(a, b) == IF a > b THEN a ELSE b

RemoveAt(s, p) == SubSeq(s, 1, p - 1) \o SubSeq(s, p + 1, Len(s))
Range(s)       == {s[i] : i \in 1..Len(s)}
PosOf(s, x)    == IF x \in Range(s) THEN CHOOSE i \in 1..Len(s) : s[i] = x ELSE 0
\* Set.prototype.add: no second entry for a value that is already in the Set
SetAdd(s, x)   == IF x \in Range(s) THEN s ELSE Append(s, x)
SetDelete(s, x) == IF PosOf(s, x) = 0 THEN s ELSE RemoveAt(s, PosOf(s, x))
Ids_of(s)      == [i \in 1..Len(s) |-> s[i].id]

\* ----------------------------------------------------------------- frames
NoListener == [id |-> 0, original |-> "", once |-> FALSE, namespace |-> NoNamespace,
               throttle |-> 0, debounce |-> 0]

NoEmit == [ev |-> "", arg |-> "", depth |-> 0, outcome |-> "none", reent |-> FALSE,
           startL |-> <<>>, startO |-> <<>>, log |-> <<>>, olog |-> <<>>, at |-> "", thrower |-> 0]

Top == stack[Len(stack)]

\* the value emit (or a timer) has called as a function; calling a value that is
\* not a function throws a TypeError and runs no user code
Running(fr) == IF fr.pc = "Ocb" THEN fr.ocur ELSE fr.cur.original
Callable(v) == v # NonCallable

InUserCode == IF stack = <<>> THEN TRUE
              ELSE Top.pc \in {"Lcb", "Ocb", "Tcb"} /\ Callable(Running(Top))
\* user code may call the registry: at top level, or from a running callback
CanCall == IF stack = <<>> THEN TRUE ELSE InUserCode /\ stack[1].ops < MaxOps

\* a registry call made from inside a callback is re-entrant for every emit on the stack
Reenter(st) ==
    [i \in 1..Len(st) |->
        IF i = 1 THEN [st[i] EXCEPT !.reent = TRUE, !.ops = @ + 1]
        ELSE [st[i] EXCEPT !.reent = TRUE]]

\* the iterators over the Set of event e (phase pcs) after the entry at position p is deleted
Adjust(st, e, pcs, p) ==
    [i \in 1..Len(st) |->
        IF st[i].ev = e /\ st[i].pc \in pcs /\ ~st[i].det /\ p > 0 /\ p <= st[i].idx
        THEN [st[i] EXCEPT !.idx = @ - 1] ELSE st[i]]

\* the frames that hold the Set of event e (phase pcs) once its key is deleted from the Map
Detach(st, e, pcs) ==
    [i \in 1..Len(st) |->
        IF st[i].ev = e /\ st[i].pc \in pcs THEN [st[i] EXCEPT !.det = TRUE] ELSE st[i]]

LPhase == {"L", "Lcb"}
OPhase == {"O", "Ocb"}

\* the stack after the Map of a phase went from m to m2 by deleting entry p of event e
AfterDelete(st, m2, e, pcs, p) ==
    IF MapHas(m2, e) THEN Adjust(st, e, pcs, p) ELSE Detach(Adjust(st, e, pcs, p), e, pcs)

\* ------------------------------------------------------------ rate limiters
\* _applyModifiers: which wrappers the effective callback is built from
\* (an option that is falsy, here 0, adds no wrapper)
_applyModifiers(options) ==
    [throttle |-> IF options.throttle # 0 THEN options.throttle ELSE 0,
     debounce |-> IF options.debounce # 0 THEN options.debounce ELSE 0]

\* setTimeout(callback, ms): a negative delay counts as 0
setTimeout(ts, kind, l, a, ms) ==
    Append(ts, [kind |-> kind, l |-> l, arg |-> a, rem |-> IF ms < 0 THEN 0 ELSE ms])

\* clearTimeout on a timer variable shared by all debounce wrappers
clearTimeoutAll(ts, l) == SelectSeq(ts, LAMBDA t : t.kind # "debounce")

\* clearTimeout(debounceTimer): the pending debounce timer of wrapper l, if any, is dropped
clearTimeout(ts, l) ==
    SelectSeq(ts, LAMBDA t : ~(t.kind = "debounce" /\ t.l.id = l.id))

\* a throttle wrapper that never tests its flag
_throttleOpen(flag) == TRUE

\* _throttle's wrapper: does this call reach func?
_throttle(flag) == ~flag

\* _throttle's wrapper after func returned: inThrottle = true; setTimeout(reset, limit)
throttleOpen(ts, l) == setTimeout(ts, "throttle", l, "", l.throttle)

\* a throttle wrapper whose dropped calls start the reset timer anew
throttleRestart(ts, l) ==
    throttleOpen(SelectSeq(ts, LAMBDA t : ~(t.kind = "throttle" /\ t.l.id = l.id)), l)

\* _throttle's wrapper when inThrottle is true: the if has no else, the timers are untouched
throttleDropped(ts, l) == ts

\* the pending debounce timers of wrapper id
Pending(ts, id) == {i \in 1..Len(ts) : ts[i].kind = "debounce" /\ ts[i].l.id = id}

\* _debounce without the clearTimeout: every call leaves its own timer
_debounceNoClear(ts, l, a) == setTimeout(ts, "debounce", l, a, l.debounce)

\* _debounce's wrapper: clearTimeout(debounceTimer); debounceTimer = setTimeout(() => func(...args), delay)
_debounce(ts, l, a) == setTimeout(clearTimeout(ts, l), "debounce", l, a, l.debounce)

\* --------------------------------------------------------------- registry
Listener(id, callback, options) ==
    [id |-> id, original |-> callback, once |-> options.once, namespace |-> options.namespace,
     throttle |-> _applyModifiers(options).throttle,
     debounce |-> _applyModifiers(options).debounce]

\* on that puts the new record in front of the Set of eventName
onMapFront(m, e, l) ==
    MapSet(m, e, <<l>> \o (IF MapHas(m, e) THEN m[e] ELSE <<>>))

\* on: the listeners Map after the new record is added to the Set of eventName
onMap(m, e, l) ==
    MapSet(m, e, Append(IF MapHas(m, e) THEN m[e] ELSE <<>>, l))

on(e, callback, options) ==
    /\ CanCall
    /\ nextId <= MaxListeners
    /\ listeners' = onMap(listeners, e, Listener(nextId, callback, options))
    /\ nextId' = nextId + 1
    /\ made' = [made EXCEPT ![nextId] = [ev |-> e, l |-> Listener(nextId, callback, options), inst |-> this]]
    /\ stack' = Reenter(stack)
    /\ lastEmit' = NoEmit
    /\ UNCHANGED <<observers, inThrottle, timers, gone, unobserved, observed, hist>>
    /\ UNCHANGED <<this, rest, doStack, lastDo>>
    /\ UNCHANGED <<clock, events, aside>>
    /\ lastOp' = "none"

\* off that compares callback with the effective callback of the record: a wrapper built
\* by _applyModifiers is a function of its own, equal to no function of the caller
offMatchEffective(S, callback) ==
    LET I == {i \in 1..Len(S) : /\ S[i].original = callback
                                 /\ S[i].throttle = 0 /\ S[i].debounce = 0}
    IN  IF I = {} THEN 0 ELSE CHOOSE i \in I : \A j \in I : i <= j

\* off: position of the first record of the Set whose original is callback (0: none)
offMatch(S, callback) ==
    LET I == {i \in 1..Len(S) : S[i].original = callback}
    IN  IF I = {} THEN 0 ELSE CHOOSE i \in I : \A j \in I : i <= j

\* off that removes the first record when none matches
offMapAny(m, e, callback) ==
    IF MapHas(m, e)
    THEN LET q == offMatch(m[e], callback)
             S == RemoveAt(m[e], IF q = 0 THEN 1 ELSE q)
         IN  IF Len(S) = 0 THEN MapDelete(m, e) ELSE MapSet(m, e, S)
    ELSE m

\* off that finds the record and leaves it in the Set
offMapKeep(m, e, callback) == m

\* off: the listeners Map afterwards
offMap(m, e, callback) ==
    IF MapHas(m, e)
    THEN LET p == offMatch(m[e], callback)
             S == IF p = 0 THEN m[e] ELSE RemoveAt(m[e], p)
         IN  IF Len(S) = 0 THEN MapDelete(m, e) ELSE MapSet(m, e, S)
    ELSE m

off(e, callback) ==
    /\ CanCall
    /\ LET p  == IF MapHas(listeners, e) THEN offMatch(listeners[e], callback) ELSE 0
           m2 == offMap(listeners, e, callback)
       IN  /\ listeners' = m2
           /\ stack' = Reenter(IF MapHas(listeners, e)
                               THEN AfterDelete(stack, m2, e, LPhase, p) ELSE stack)
           /\ gone' = IF p = 0 THEN gone ELSE [gone EXCEPT ![listeners[e][p].id] = "off"]
           /\ lastOp' = IF p = 0 THEN "off" ELSE "none"
    /\ lastEmit' = NoEmit
    /\ UNCHANGED <<observers, nextId, inThrottle, timers, made, unobserved, observed, hist>>
    /\ UNCHANGED <<this, rest, doStack, lastDo>>
    /\ UNCHANGED <<clock, events, aside>>

\* the observe() calls in force for event e, oldest first
Registered(m, e) == IF MapHas(m, e) THEN m[e] ELSE <<>>
RegPos(S, o) == IF \E i \in 1..Len(S) : S[i].o = o
                THEN CHOOSE i \in 1..Len(S) : S[i].o = o ELSE 0

\* observe(e, o) was called
regObserve(m, e, o) ==
    LET S == Registered(m, e)
        p == RegPos(S, o)
    IN  IF p = 0 THEN MapSet(m, e, Append(S, [o |-> o, dup |-> FALSE]))
        ELSE MapSet(m, e, [S EXCEPT ![p].dup = TRUE])

\* unobserve(e, o) was called
regUnobserve(m, e, o) ==
    LET S  == Registered(m, e)
        S2 == SelectSeq(S, LAMBDA r : r.o # o)
    IN  IF S2 = <<>> THEN (IF MapHas(m, e) THEN MapDelete(m, e) ELSE m) ELSE MapSet(m, e, S2)

\* observe: the observers Map afterwards
observeMap(m, e, o) ==
    MapSet(m, e, SetAdd(IF MapHas(m, e) THEN m[e] ELSE <<>>, o))

observe(e, o) ==
    /\ CanCall
    /\ observers' = observeMap(observers, e, o)
    /\ unobserved' = unobserved \ {<<e, o>>}
    /\ observed' = regObserve(observed, e, o)
    /\ stack' = Reenter(stack)
    /\ lastEmit' = NoEmit
    /\ UNCHANGED <<listeners, nextId, inThrottle, timers, made, gone, hist>>
    /\ UNCHANGED <<this, rest, doStack, lastDo>>
    /\ UNCHANGED <<clock, events, aside>>
    /\ lastOp' = "none"

\* unobserve: the observers Map afterwards
unobserveMap(m, e, o) ==
    IF MapHas(m, e)
    THEN LET S == SetDelete(m[e], o)
         IN  IF Len(S) = 0 THEN MapDelete(m, e) ELSE MapSet(m, e, S)
    ELSE m

unobserve(e, o) ==
    /\ CanCall
    /\ LET p  == IF MapHas(observers, e) THEN PosOf(observers[e], o) ELSE 0
           m2 == unobserveMap(observers, e, o)
       IN  /\ observers' = m2
           /\ stack' = Reenter(IF MapHas(observers, e)
                               THEN AfterDelete(stack, m2, e, OPhase, p) ELSE stack)
           /\ unobserved' = IF p = 0 THEN unobserved ELSE unobserved \cup {<<e, o>>}
           /\ observed' = regUnobserve(observed, e, o)
           /\ lastOp' = IF p = 0 THEN "unobserve" ELSE "none"
    /\ lastEmit' = NoEmit
    /\ UNCHANGED <<listeners, nextId, inThrottle, timers, made, gone, hist>>
    /\ UNCHANGED <<this, rest, doStack, lastDo>>
    /\ UNCHANGED <<clock, events, aside>>

\* ------------------------------------------------------------------- emit
Frame(e, a, pc) ==
    [ev |-> e, arg |-> a, pc |-> pc, idx |-> 0, det |-> FALSE, cur |-> NoListener, ocur |-> "",
     ops |-> 0, reent |-> FALSE,
     startL |-> IF MapHas(listeners, e) THEN Ids_of(listeners[e]) ELSE <<>>,
     startO |-> IF MapHas(observers, e) THEN observers[e] ELSE <<>>,
     log |-> <<>>, olog |-> <<>>]

TimerFrame(l, a) ==
    [ev |-> "", arg |-> a, pc |-> "Tcb", idx |-> 0, det |-> FALSE, cur |-> l, ocur |-> "",
     ops |-> 0, reent |-> FALSE, startL |-> <<>>, startO |-> <<>>, log |-> <<>>, olog |-> <<>>]

\* what is known of an emit call when it ends
Ended(fr, depth, outcome) ==
    [ev |-> fr.ev, arg |-> fr.arg, depth |-> depth, outcome |-> outcome, reent |-> fr.reent,
     startL |-> fr.startL, startO |-> fr.startO, log |-> fr.log, olog |-> fr.olog,
     at |-> IF outcome = "threw" THEN fr.pc ELSE "",
     thrower |-> IF outcome = "threw" /\ fr.pc = "Lcb" THEN fr.cur.id ELSE 0]

Pop(st) == SubSeq(st, 1, Len(st) - 1)

\* an emit that runs its observers block before its listeners block
observersFirst(m, o, e) == IF MapHas(o, e) THEN "O" ELSE IF MapHas(m, e) THEN "L" ELSE "end"

\* emit: the if (listeners) block comes first, then the if (observers) block
firstPass(m, o, e) == IF MapHas(m, e) THEN "L" ELSE IF MapHas(o, e) THEN "O" ELSE "end"

\* emit(eventName, ...args) up to its first callback: listeners = this.listeners.get(eventName)
emit(e, a) ==
    /\ CanCall
    /\ Len(stack) < MaxDepth
    /\ IF firstPass(listeners, observers, e) = "L"
       THEN /\ stack' = Append(Reenter(stack), Frame(e, a, "L"))
            /\ lastEmit' = NoEmit
       ELSE IF firstPass(listeners, observers, e) = "O"
       THEN /\ stack' = Append(Reenter(stack), Frame(e, a, "O"))
            /\ lastEmit' = NoEmit
       ELSE /\ stack' = Reenter(stack)
            /\ lastEmit' = Ended(Frame(e, a, "O"), Len(stack) + 1, "returned")
    /\ UNCHANGED <<listeners, observers, nextId, inThrottle, timers, made, gone, unobserved, observed, hist>>
    /\ UNCHANGED <<this, rest, doStack, lastDo>>
    /\ UNCHANGED <<clock, events, aside>>
    /\ lastOp' = "none"

\* emit: if (listener.once) listeners.delete(listener)
onceDelete(S, l) == IF l.once THEN SetDelete(S, l) ELSE S

\* emit without the size check
sizeCheckKeep(m, e, S) == m

\* emit: if (listeners.size === 0) this.listeners.delete(eventName)
sizeCheck(m, e, S) == IF Len(S) = 0 THEN MapDelete(m, e) ELSE m

\* emit, after listener.callback(...args) has returned to the loop (st: the stack by then)
AfterListener(st, l) ==
    LET fr == st[Len(st)]
    IN  /\ gone' = IF l.once /\ gone[l.id] = "" THEN [gone EXCEPT ![l.id] = "once"] ELSE gone
        /\ IF fr.det
           THEN listeners' = listeners /\ stack' = st
           ELSE LET S  == listeners[fr.ev]
                    S2 == onceDelete(S, l)
                    p  == IF S2 = S THEN 0 ELSE PosOf(S, l)
                IN  /\ listeners' = MapSet(listeners, fr.ev, S2)
                    /\ stack' = Adjust(st, fr.ev, LPhase, p)

\* emit: one turn of for (let listener of listeners), up to the user callback if it is reached
emitListenerNext ==
    /\ stack # <<>>
    /\ Top.pc = "L"
    /\ LET fr == Top
           n  == Len(stack)
           S  == IF fr.det THEN <<>> ELSE listeners[fr.ev]
       IN  IF fr.idx < Len(S)
           THEN LET l   == S[fr.idx + 1]
                    ran == [fr EXCEPT !.idx = @ + 1, !.log = Append(@, [id |-> l.id, cb |-> l.original, arg |-> fr.arg, ran |-> TRUE])]
                    not == [fr EXCEPT !.idx = @ + 1, !.log = Append(@, [id |-> l.id, cb |-> l.original, arg |-> fr.arg, ran |-> FALSE])]
                IN  /\ IF l.debounce # 0
                       THEN /\ timers' = _debounce(timers, l, fr.arg)
                            /\ hist' = [hist EXCEPT ![l.id].call = 0, ![l.id].arg = fr.arg,
                                                     ![l.id].burst = Pending(timers, l.id) # {}]
                            /\ AfterListener([stack EXCEPT ![n] = not], l)
                            /\ UNCHANGED inThrottle
                       ELSE IF l.throttle # 0 /\ ~_throttle(inThrottle[l.id])
                       THEN /\ AfterListener([stack EXCEPT ![n] = not], l)
                            /\ timers' = throttleDropped(timers, l)
                            /\ UNCHANGED <<inThrottle, hist>>
                       ELSE /\ stack' = [stack EXCEPT ![n] = [ran EXCEPT !.pc = "Lcb", !.cur = l]]
                            /\ hist' = IF l.throttle # 0 THEN [hist EXCEPT ![l.id].lead = 0] ELSE hist
                            /\ UNCHANGED <<listeners, inThrottle, timers, gone>>
                    /\ lastEmit' = NoEmit
           ELSE LET m2  == sizeCheck(listeners, fr.ev, S)
                    st1 == IF MapHas(listeners, fr.ev) /\ ~MapHas(m2, fr.ev)
                           THEN Detach(stack, fr.ev, LPhase) ELSE stack
                IN  /\ listeners' = m2
                    /\ IF MapHas(observers, fr.ev)
                       THEN /\ stack' = [st1 EXCEPT ![n] = [fr EXCEPT !.pc = "O", !.idx = 0, !.det = FALSE]]
                            /\ lastEmit' = NoEmit
                       ELSE /\ stack' = Pop(st1)
                            /\ lastEmit' = Ended(fr, n, "returned")
                    /\ UNCHANGED <<inThrottle, timers, gone, hist>>
    /\ UNCHANGED <<observers, nextId, made, unobserved, observed>>
    /\ UNCHANGED <<this, rest, doStack, lastDo>>
    /\ UNCHANGED <<clock, events, aside>>
    /\ lastOp' = "none"

\* emit: one turn of for (let observer of observers), up to the observer callback
emitObserverNext ==
    /\ stack # <<>>
    /\ Top.pc = "O"
    /\ LET fr == Top
           n  == Len(stack)
           O  == IF fr.det THEN <<>> ELSE observers[fr.ev]
       IN  IF fr.idx < Len(O)
           THEN /\ stack' = [stack EXCEPT ![n] = [fr EXCEPT !.pc = "Ocb", !.idx = @ + 1,
                                                  !.ocur = O[fr.idx + 1],
                                                  !.olog = Append(@, [o |-> O[fr.idx + 1], arg |-> fr.arg])]]
                /\ lastEmit' = NoEmit
           ELSE /\ stack' = Pop(stack)
                /\ lastEmit' = Ended(fr, n, "returned")
    /\ UNCHANGED <<listeners, observers, nextId, inThrottle, timers, made, gone, unobserved, observed, hist>>
    /\ UNCHANGED <<this, rest, doStack, lastDo>>
    /\ UNCHANGED <<clock, events, aside>>
    /\ lastOp' = "none"

\* the running user callback returns normally
callbackReturn ==
    /\ stack # <<>>
    /\ Top.pc \in {"Lcb", "Ocb", "Tcb"}
    /\ Callable(Running(Top))
    /\ LET fr == Top
           n  == Len(stack)
           l  == fr.cur
       IN  /\ IF fr.pc \in {"Lcb", "Tcb"} /\ l.throttle # 0
              THEN /\ inThrottle' = [inThrottle EXCEPT ![l.id] = TRUE]
                   /\ timers' = throttleOpen(timers, l)
              ELSE UNCHANGED <<inThrottle, timers>>
           /\ CASE fr.pc = "Lcb" -> AfterListener([stack EXCEPT ![n] = [fr EXCEPT !.pc = "L"]], l)
                [] fr.pc = "Ocb" -> stack' = [stack EXCEPT ![n] = [fr EXCEPT !.pc = "O"]]
                                    /\ UNCHANGED <<listeners, gone>>
                [] fr.pc = "Tcb" -> stack' = Pop(stack) /\ UNCHANGED <<listeners, gone>>
           /\ hist' = IF fr.pc = "Tcb" THEN [hist EXCEPT ![l.id] = Settled(@)] ELSE hist
    /\ lastEmit' = NoEmit
    /\ UNCHANGED <<observers, nextId, made, unobserved, observed>>
    /\ UNCHANGED <<this, rest, doStack, lastDo>>
    /\ UNCHANGED <<clock, events, aside>>
    /\ lastOp' = "none"

\* the running user callback throws (or the call of a non-function does): nothing in
\* emit or in the wrappers catches it
callbackThrow ==
    /\ stack # <<>>
    /\ Top.pc \in {"Lcb", "Ocb", "Tcb"}
    /\ stack' = Pop(stack)
    /\ lastEmit' = IF Top.pc = "Tcb" THEN NoEmit ELSE Ended(Top, Len(stack), "threw")
    /\ hist' = IF Top.pc = "Tcb" THEN [hist EXCEPT ![Top.cur.id] = Settled(@)] ELSE hist
    /\ UNCHANGED <<listeners, observers, nextId, inThrottle, timers, made, gone, unobserved, observed>>
    /\ UNCHANGED <<this, rest, doStack, lastDo>>
    /\ UNCHANGED <<clock, events, aside>>
    /\ lastOp' = "none"

\* ----------------------------------------------------------------- timers
\* the delay a timer was started with
Timeout(t) == Max(IF t.kind = "throttle" THEN t.l.throttle ELSE t.l.debounce, 0)

\* a due timer runs, the throttle reset or the debounced call: never before a timer
\* that was started earlier with the same or a shorter delay
timerFire ==
    /\ stack = <<>>
    /\ \E i \in 1..Len(timers) :
        /\ timers[i].rem = 0
        /\ \A j \in 1..(i - 1) : Timeout(timers[j]) > Timeout(timers[i])
        /\ LET t == timers[i]
               l == t.l
           IN  /\ timers' = RemoveAt(timers, i)
               /\ IF t.kind = "throttle"
                  THEN /\ inThrottle' = [inThrottle EXCEPT ![l.id] = FALSE]
                       /\ UNCHANGED <<stack, hist>>
                  ELSE IF l.throttle # 0 /\ ~_throttle(inThrottle[l.id])
                  THEN /\ hist' = [hist EXCEPT ![l.id] = Settled(@)]
                       /\ UNCHANGED <<inThrottle, stack>>
                  ELSE /\ stack' = <<TimerFrame(l, t.arg)>>
                       /\ hist' = IF l.throttle # 0 THEN [hist EXCEPT ![l.id].lead = 0] ELSE hist
                       /\ UNCHANGED inThrottle
    /\ lastEmit' = NoEmit
    /\ UNCHANGED <<listeners, observers, nextId, made, gone, unobserved, observed>>
    /\ UNCHANGED <<this, rest, doStack, lastDo>>
    /\ UNCHANGED <<clock, events, aside>>
    /\ lastOp' = "none"

\* one millisecond passes while no callback of the event loop has run: a timer
\* runs no earlier than its delay, and later when the thread is busy
tick ==
    /\ stack = <<>>
    /\ (\E i \in 1..Len(timers) : timers[i].rem > 0)
          \/ (\E id \in Ids : hist[id].lead < Limit \/ hist[id].call < Delay)
    /\ timers' = [i \in 1..Len(timers) |-> [timers[i] EXCEPT !.rem = Max(@ - 1, 0)]]
    /\ hist' = [id \in Ids |-> [hist[id] EXCEPT !.lead = Min(@ + 1, Limit),
                                                !.call = Min(@ + 1, Delay)]]
    /\ lastEmit' = NoEmit
    /\ UNCHANGED <<listeners, observers, nextId, inThrottle, stack, made, gone, unobserved, observed>>
    /\ UNCHANGED <<this, rest, doStack, lastDo>>
    /\ UNCHANGED <<clock, events, aside>>
    /\ lastOp' = "none"

\* -------------------------------------------------------------- instances
\* instances whose two Maps are one pair of objects shared by all of them
thisMapsShared(left, parked) == left

\* this.listeners / this.observers in a method called on another instance: the Maps that
\* instance's constructor created (parked), not those of the instance left behind (left)
thisMaps(left, parked) == parked

\* user code at top level turns to instance i: the methods it calls next run with this = i
enter(i) ==
    /\ stack = <<>>
    /\ i # this
    /\ this' = i
    /\ LET left == [listeners |-> listeners, observers |-> observers]
           m    == thisMaps(left, [listeners |-> rest.listeners, observers |-> rest.observers])
       IN  /\ listeners' = m.listeners
           /\ observers' = m.observers
    /\ rest' = [listeners |-> listeners, observers |-> observers,
                observed |-> observed, unobserved |-> unobserved]
    /\ observed' = rest.observed
    /\ unobserved' = rest.unobserved
    /\ lastEmit' = NoEmit
    /\ lastOp' = "none"
    /\ UNCHANGED <<nextId, inThrottle, timers, stack, made, gone, hist, doStack, lastDo>>
    /\ UNCHANGED <<clock, events, aside>>

\* ------------------------------------------------------ EventUtils.doEvent
NoDo == [event |-> "", callback |-> "", args |-> <<>>, outcome |-> "none", logged |-> ""]

\* a catch block that throws the error on
catchRethrow(error) == "threw"

\* doEvent: catch (error) { console.error(...) }: how doEvent ends after the catch block
catchBlock(error) == "returned"

\* doEvent(event, callback) up to callback(event) inside try: the callback is running, or
\* the call of a value that is not a function has thrown a TypeError
doEvent(event, callback) ==
    /\ IF doStack = <<>> THEN TRUE ELSE doStack[Len(doStack)].pc = "try"
    /\ Len(doStack) < MaxDepth
    /\ doStack' = Append(doStack,
                         IF Callable(callback)
                         THEN [event |-> event, callback |-> callback, pc |-> "try",
                               args |-> <<event>>, error |-> ""]
                         ELSE [event |-> event, callback |-> callback, pc |-> "catch",
                               args |-> <<>>, error |-> TypeError])
    /\ lastDo' = NoDo
    /\ UNCHANGED <<registry, clock, events, aside>>

\* the callback returns: the try block ends and doEvent returns
doCallbackReturn ==
    /\ doStack # <<>>
    /\ doStack[Len(doStack)].pc = "try"
    /\ LET fr == doStack[Len(doStack)]
       IN  lastDo' = [event |-> fr.event, callback |-> fr.callback, args |-> fr.args,
                      outcome |-> "returned", logged |-> ""]
    /\ doStack' = Pop(doStack)
    /\ UNCHANGED <<registry, clock, events, aside>>

\* the callback throws: control goes to the catch block
doCallbackThrow(error) ==
    /\ doStack # <<>>
    /\ doStack[Len(doStack)].pc = "try"
    /\ doStack' = [doStack EXCEPT ![Len(doStack)].pc = "catch", ![Len(doStack)].error = error]
    /\ lastDo' = NoDo
    /\ UNCHANGED <<registry, clock, events, aside>>

\* the catch block: console.error('EventUtils.doEvent error:', error), and doEvent ends
doCatch ==
    /\ doStack # <<>>
    /\ doStack[Len(doStack)].pc = "catch"
    /\ LET fr == doStack[Len(doStack)]
       IN  lastDo' = [event |-> fr.event, callback |-> fr.callback, args |-> fr.args,
                      outcome |-> catchBlock(fr.error), logged |-> fr.error]
    /\ doStack' = Pop(doStack)
    /\ UNCHANGED <<registry, clock, events, aside>>

\* ----------------------------------------------------- EventUtils.throttle
\* throttle: if (now - lastCall >= limit)
throttlePass(t, last, limit) == t - last >= limit

\* throttled = EventUtils.throttle(func, Limit); throttled(a) is called, up to func.apply
throttled(a) ==
    /\ tpc = "idle"
    /\ Len(tlog) < MaxCalls
    /\ IF throttlePass(now, lastCall, Limit)
       THEN /\ lastCall' = now
            /\ tpc' = "func"
            /\ tlog' = Append(tlog, [at |-> now, arg |-> a, ran |-> TRUE, threw |-> FALSE])
       ELSE /\ tlog' = Append(tlog, [at |-> now, arg |-> a, ran |-> FALSE, threw |-> FALSE])
            /\ UNCHANGED <<lastCall, tpc>>
    /\ UNCHANGED <<now, registry, doStack, lastDo, events, aside>>

\* func returns, and so does the wrapper
funcReturn ==
    /\ tpc = "func"
    /\ tpc' = "idle"
    /\ UNCHANGED <<now, lastCall, tlog, registry, doStack, lastDo, events, aside>>

\* a wrapper that takes back lastCall = now when func throws
funcThrownReset(last) == 0

\* throttle: lastCall = now is assigned before func.apply(this, args): it stands when
\* func throws
funcThrown(last) == last

\* func throws: the wrapper catches nothing
funcThrow ==
    /\ tpc = "func"
    /\ tpc' = "idle"
    /\ tlog' = [tlog EXCEPT ![Len(tlog)].threw = TRUE]
    /\ lastCall' = funcThrown(lastCall)
    /\ UNCHANGED <<now, registry, doStack, lastDo, events, aside>>

\* one millisecond passes between two calls of the wrapper
clockTick ==
    /\ tpc = "idle"
    /\ now < MaxNow
    /\ now' = now + 1
    /\ UNCHANGED <<lastCall, tlog, tpc, registry, doStack, lastDo, events, aside>>

\* ------------------------------------------------------------- events.js
\* a function passed by the caller, as a handler
Fn(cb) == [wrap |-> "none", func |-> cb, w |-> 0, ms |-> 0]

\* Events.add: const handler = options.throttle ? throttle(...) : options.debounce ?
\* debounce(...) : callback; a wrapper is a new function (w: the add call that made it)
makeHandler(callback, options, n) ==
    IF options.throttle # 0
    THEN [wrap |-> "throttle", func |-> callback, w |-> n, ms |-> options.throttle]
    ELSE IF options.debounce # 0
    THEN [wrap |-> "debounce", func |-> callback, w |-> n, ms |-> options.debounce]
    ELSE Fn(callback)

\* target.addEventListener(type, handler, {capture}): no second entry for the same
\* type, callback and capture
addEventListener(d, target, type, h, capture, reg) ==
    IF \E i \in 1..Len(d) : /\ d[i].target = target /\ d[i].type = type
                             /\ d[i].handler = h /\ d[i].capture = capture
    THEN d
    ELSE Append(d, [target |-> target, type |-> type, handler |-> h, capture |-> capture,
                    reg |-> reg])

\* target.removeEventListener(type, callback): capture defaults to false
removeEventListener(d, target, type, callback) ==
    SelectSeq(d, LAMBDA x : ~(/\ x.target = target /\ x.type = type
                              /\ x.handler = Fn(callback) /\ x.capture = FALSE))

NoWrapper  == [lastCall |-> 0, pending |-> FALSE, due |-> 0]
NoAdd      == [type |-> "", target |-> "", callback |-> "", options |-> "", once |-> FALSE,
               removed |-> FALSE, runs |-> 0]
NoDispatch == [type |-> "", target |-> "", timer |-> FALSE, trigger |-> FALSE, logged |-> 0,
               calls |-> <<>>]

\* Events.add(types, target, callback, options, namespace, once) for one type and a valid
\* target; the parameter once is not read
add(type, target, callback, options, once) ==
    /\ nextReg <= MaxAdds
    /\ LET handler == makeHandler(callback, options, nextReg)
       IN  /\ liveEvents' = MapSet(liveEvents, type,
                                   Append(IF MapHas(liveEvents, type) THEN liveEvents[type] ELSE <<>>,
                                          [target |-> target, callback |-> handler, reg |-> nextReg]))
           /\ dom' = addEventListener(dom, target, type, handler, options.capture, nextReg)
    /\ added' = [added EXCEPT ![nextReg] = [type |-> type, target |-> target, callback |-> callback,
                                            options |-> options, once |-> once, removed |-> FALSE,
                                            runs |-> 0]]
    /\ nextReg' = nextReg + 1
    /\ dlog' = NoDispatch
    /\ UNCHANGED <<wrappers, registry, doStack, lastDo, clock, aside>>

\* Events.once: Events.add(types, selector, callback, options, namespace, true, group)
once(type, target, callback, options) == add(type, target, callback, options, TRUE)

\* Events.remove: the entries of liveEvents.get(type) that the filter keeps
removeFilter(S, target, callback) ==
    SelectSeq(S, LAMBDA e : e.target # target \/ e.callback # Fn(callback))

\* Events.remove(types, target, callback) for one type
remove(type, target, callback) ==
    /\ dom' = removeEventListener(dom, target, type, callback)
    /\ liveEvents' = IF MapHas(liveEvents, type)
                     THEN MapSet(liveEvents, type, removeFilter(liveEvents[type], target, callback))
                     ELSE liveEvents
    /\ added' = [r \in Regs |->
                    IF added[r].type = type /\ added[r].target = target /\ added[r].callback = callback
                    THEN [added[r] EXCEPT !.removed = TRUE] ELSE added[r]]
    /\ dlog' = NoDispatch
    /\ UNCHANGED <<nextReg, wrappers, registry, doStack, lastDo, clock, aside>>

\* whether a handler called at time t reaches its function right away
Reaches(h, t) ==
    \/ h.wrap = "none"
    \/ h.wrap = "throttle" /\ throttlePass(t, wrappers[h.w].lastCall, h.ms)

\* the browser dispatches an event of this type at the target: the handlers of the
\* target's listener list are called in order (every callback returns)
dispatchEvent(type, target) ==
    /\ \E i \in 1..Len(dom) : dom[i].type = type /\ dom[i].target = target
    /\ LET L == SelectSeq(dom, LAMBDA x : x.type = type /\ x.target = target)
           R == SelectSeq(L, LAMBDA x : Reaches(x.handler, now))
       IN  /\ dlog' = [type |-> type, target |-> target, timer |-> FALSE,
                       trigger |-> FALSE, logged |-> 0,
                       calls |-> [i \in 1..Len(R) |->
                                     [reg |-> R[i].reg, func |-> R[i].handler.func,
                                      removed |-> added[R[i].reg].removed]]]
           /\ wrappers' = [r \in Regs |->
                  IF \E i \in 1..Len(L) : L[i].handler.w = r /\ L[i].handler.wrap = "throttle"
                                          /\ Reaches(L[i].handler, now)
                  THEN [wrappers[r] EXCEPT !.lastCall = now]
                  ELSE IF \E i \in 1..Len(L) : L[i].handler.w = r /\ L[i].handler.wrap = "debounce"
                  THEN [wrappers[r] EXCEPT !.pending = TRUE, !.due = now + added[r].options.debounce]
                  ELSE wrappers[r]]
           /\ added' = [r \in Regs |->
                  IF \E i \in 1..Len(R) : R[i].reg = r
                  THEN [added[r] EXCEPT !.runs = Min(@ + 1, 2)] ELSE added[r]]
    /\ UNCHANGED <<liveEvents, dom, nextReg, registry, doStack, lastDo, clock, aside>>

\* the timer of a debounce wrapper made by Events.add runs: func.apply(this, args)
debounceFire(r) ==
    /\ wrappers[r].pending
    /\ wrappers[r].due <= now
    /\ wrappers' = [wrappers EXCEPT ![r].pending = FALSE]
    /\ dlog' = [type |-> added[r].type, target |-> added[r].target, timer |-> TRUE,
                trigger |-> FALSE, logged |-> 0,
                calls |-> <<[reg |-> r, func |-> added[r].callback, removed |-> added[r].removed]>>]
    /\ added' = [added EXCEPT ![r].runs = Min(@ + 1, 2)]
    /\ UNCHANGED <<liveEvents, dom, nextReg, registry, doStack, lastDo, clock, aside>>

\* eventHandler: doEvent(event.target, listener.selector) taken as a condition.  doEvent
\* has no return statement: whatever its callback does, the call evaluates to undefined
doEventValue(event, callback) == FALSE

\* the selector of an entry of liveEvents: add stores { target, callback } only
selectorOf(l) == NonCallable

\* eventHandler(event): the entries of liveEvents.get(event.type) whose callback it invokes.
\* The comparator b.priority - a.priority is NaN for every pair: the order is kept
eventHandler(S, target) == SelectSeq(S, LAMBDA l : doEventValue(target, selectorOf(l)))

\* Events.trigger(types, data) for one type: eventHandler({ type, target: document }).
\* Every doEvent call runs undefined(event) in its try block and logs the TypeError
trigger(type) ==
    /\ LET S == IF MapHas(liveEvents, type) THEN liveEvents[type] ELSE <<>>
           I == eventHandler(S, "document")
           R == SelectSeq(I, LAMBDA l : Reaches(l.callback, now))
       IN  /\ dlog' = [type |-> type, target |-> "document", timer |-> FALSE,
                       trigger |-> TRUE,
                       logged |-> Cardinality({i \in 1..Len(S) : ~Callable(selectorOf(S[i]))}),
                       calls |-> [i \in 1..Len(R) |->
                                     [reg |-> R[i].reg, func |-> R[i].callback.func,
                                      removed |-> added[R[i].reg].removed]]]
           /\ wrappers' = [r \in Regs |->
                  IF \E i \in 1..Len(I) : I[i].reg = r /\ I[i].callback.wrap = "throttle"
                                          /\ Reaches(I[i].callback, now)
                  THEN [wrappers[r] EXCEPT !.lastCall = now]
                  ELSE IF \E i \in 1..Len(I) : I[i].reg = r /\ I[i].callback.wrap = "debounce"
                  THEN [wrappers[r] EXCEPT !.pending = TRUE, !.due = now + added[r].options.debounce]
                  ELSE wrappers[r]]
           /\ added' = [r \in Regs |->
                  IF \E i \in 1..Len(R) : R[i].reg = r
                  THEN [added[r] EXCEPT !.runs = Min(@ + 1, 2)] ELSE added[r]]
    /\ UNCHANGED <<liveEvents, dom, nextReg, registry, doStack, lastDo, clock, aside>>

\* -------------------------------------------- one emit call and its iterator
\* no emit call yet: the Set of the event is empty
NoIter == [pc |-> "idle", ahead |-> <<>>, cur |-> "", turns |-> 0, outcome |-> ""]

\* for (let listener of listeners): the entries a running loop has still to reach after
\* listeners.add(listener) was called.  The iterator reads the Set itself, so an entry
\* added behind its position is reached by the same loop
iterSetAdd(ahead, callback) == Append(ahead, callback)

\* on(e, callback), from top level before the emit call or from the running callback:
\* a new listener object goes to the end of the Set of e
iterOn(callback) ==
    /\ iter.pc \in {"idle", "Lcb"}
    /\ Len(iter.ahead) < MaxListeners
    /\ iter' = [iter EXCEPT !.ahead = iterSetAdd(@, callback)]
    /\ UNCHANGED <<registry, doStack, lastDo, clock, events, deb, duo>>

\* emit(e, ...args) is called from top level, up to the head of its listeners loop (no
\* observers are registered)
iterEmit ==
    /\ iter.pc = "idle"
    /\ iter' = [iter EXCEPT !.pc = "L"]
    /\ UNCHANGED <<registry, doStack, lastDo, clock, events, deb, duo>>

\* one turn of the loop, up to listener.callback(...args); past the last entry, emit returns
iterNext ==
    /\ iter.pc = "L"
    /\ iter' = IF iter.ahead # <<>>
               THEN [iter EXCEPT !.pc = "Lcb", !.cur = Head(iter.ahead), !.ahead = Tail(@),
                                 !.turns = Min(@ + 1, MaxListeners + 1)]
               ELSE [iter EXCEPT !.pc = "done", !.cur = "", !.outcome = "returned"]
    /\ UNCHANGED <<registry, doStack, lastDo, clock, events, deb, duo>>

\* the running callback returns to the loop
iterReturn ==
    /\ iter.pc = "Lcb"
    /\ iter' = [iter EXCEPT !.pc = "L"]
    /\ UNCHANGED <<registry, doStack, lastDo, clock, events, deb, duo>>

\* the running callback throws: emit catches nothing and ends
iterThrow ==
    /\ iter.pc = "Lcb"
    /\ iter' = [iter EXCEPT !.pc = "done", !.outcome = "threw"]
    /\ UNCHANGED <<registry, doStack, lastDo, clock, events, deb, duo>>

\* ----------------------------------------------------- EventUtils.debounce
\* the wrappers made by two calls of EventUtils.debounce(func, Delay)
Debounced == {1, 2}

\* let timeoutId (undefined: 0) per wrapper; the host's pending timers in creation order;
\* per wrapper the number of calls and of executions of func; the handles that
\* clearTimeout cancelled while pending, and those whose callback has run (history)
NoDeb == [timeoutId |-> [w \in Debounced |-> 0], timers |-> <<>>, next |-> 1,
          calls |-> [w \in Debounced |-> 0], runs |-> [w \in Debounced |-> 0],
          cleared |-> {}, ran |-> {}]

\* a wrapper that schedules without cancelling
debKeepTimeout(ts, id) == ts

\* debounce: clearTimeout(timeoutId): the pending timer with that handle, if any, is dropped
debClearTimeout(ts, id) == SelectSeq(ts, LAMBDA t : t.id # id)

\* debounce: timeoutId = setTimeout(() => func.apply(this, args), delay), at time t
debSetTimeout(ts, id, w, args, t) == Append(ts, [id |-> id, w |-> w, args |-> args, due |-> t + Delay])

\* debounced = EventUtils.debounce(func, Delay); debounced(a) is called on wrapper w
debounced(w, a) ==
    /\ deb.next <= MaxCalls
    /\ LET old == deb.timeoutId[w]
           ts  == debClearTimeout(deb.timers, old)
       IN  deb' = [deb EXCEPT !.timers = debSetTimeout(ts, deb.next, w, a, now),
                              !.timeoutId[w] = deb.next,
                              !.next = @ + 1,
                              !.calls[w] = @ + 1,
                              !.cleared = IF \E i \in 1..Len(deb.timers) : deb.timers[i].id = old
                                          THEN @ \cup {old} ELSE @]
    /\ UNCHANGED <<registry, doStack, lastDo, clock, events, iter, duo>>

\* a due timer runs, the earliest first: func.apply(this, args), which returns or throws
debTimer ==
    /\ \E i \in 1..Len(deb.timers) :
        /\ deb.timers[i].due <= now
        /\ \A j \in 1..(i - 1) : deb.timers[j].due > deb.timers[i].due
        /\ deb' = [deb EXCEPT !.timers = RemoveAt(@, i),
                              !.runs[deb.timers[i].w] = @ + 1,
                              !.ran = @ \cup {deb.timers[i].id}]
    /\ UNCHANGED <<registry, doStack, lastDo, clock, events, iter, duo>>

\* ------------------------------------------------- the two throttle wrappers
\* stamped = EventUtils.throttle(f, Limit) with its lastCall, flagged =
\* EventFlow._throttle(f, Limit) with its inThrottle and the reset timers it has pending
\* (due times); the calls made so far and which wrapper executed f (history)
NoDuo == [lastCall |-> 0, inThrottle |-> FALSE, timers |-> <<>>, log |-> <<>>]

\* both wrappers are called at the same time, from the same task; f returns at once
duoCall ==
    /\ Len(duo.log) < MaxCalls
    /\ LET stamped == throttlePass(now, duo.lastCall, Limit)
           flagged == _throttle(duo.inThrottle)
       IN  duo' = [duo EXCEPT !.lastCall = IF stamped THEN now ELSE @,
                              !.inThrottle = IF flagged THEN TRUE ELSE @,
                              !.timers = IF flagged THEN Append(@, now + Max(Limit, 0)) ELSE @,
                              !.log = Append(@, [at |-> now, stamped |-> stamped, flagged |-> flagged])]
    /\ UNCHANGED <<registry, doStack, lastDo, clock, events, iter, deb>>

\* the reset timer of _throttle runs, at its due time or later: inThrottle = false
duoTimer ==
    /\ duo.timers # <<>>
    /\ Head(duo.timers) <= now
    /\ duo' = [duo EXCEPT !.inThrottle = FALSE, !.timers = Tail(@)]
    /\ UNCHANGED <<registry, doStack, lastDo, clock, events, iter, deb>>

\* ---------------------------------------------------------- specifications
\* the state all specifications start from, but for the clock
InitState ==
    /\ listeners = EmptyMap
    /\ observers = EmptyMap
    /\ nextId = 1
    /\ inThrottle = [id \in Ids |-> FALSE]
    /\ timers = <<>>
    /\ stack = <<>>
    /\ lastEmit = NoEmit
    /\ lastOp = "none"
    /\ made = [id \in Ids |-> [ev |-> "", l |-> NoListener, inst |-> 0]]
    /\ gone = [id \in Ids |-> ""]
    /\ unobserved = {}
    /\ observed = EmptyMap
    /\ hist = [id \in Ids |-> NoHist]
    /\ this = 1
    /\ doStack = <<>>
    /\ lastDo = NoDo
    /\ rest = [listeners |-> EmptyMap, observers |-> EmptyMap,
               observed |-> EmptyMap, unobserved |-> {}]
    /\ liveEvents = EmptyMap
    /\ dom = <<>>
    /\ nextReg = 1
    /\ wrappers = [r \in Regs |-> NoWrapper]
    /\ added = [r \in Regs |-> NoAdd]
    /\ dlog = NoDispatch
    /\ lastCall = 0
    /\ tlog = <<>>
    /\ tpc = "idle"
    /\ iter = NoIter
    /\ deb = NoDeb
    /\ duo = NoDuo

\* constructor: both Maps empty
Init == InitState /\ now = 0

\* throttle(func, Limit) has returned the wrapper: let lastCall = 0, at any value of the clock
InitClock == InitState /\ now \in Clock

TopLevel == stack = <<>>

\* sequences of top-level calls; a callback returns or throws, and calls nothing
Next ==
    \/ \E e \in EventNames, cb \in Callbacks, o \in PlainOptions : TopLevel /\ on(e, cb, o)
    \/ \E e \in EventNames, cb \in Callbacks : TopLevel /\ off(e, cb)
    \/ \E e \in EventNames, a \in Payloads : TopLevel /\ emit(e, a)
    \/ \E e \in EventNames, o \in Observers : TopLevel /\ observe(e, o)
    \/ \E e \in EventNames, o \in Observers : TopLevel /\ unobserve(e, o)
    \/ emitListenerNext
    \/ emitObserverNext
    \/ callbackReturn
    \/ callbackThrow

Spec == Init /\ [][Next]_vars

\* the same, and a running callback may itself call on, off, emit, observe, unobserve
NextRe ==
    \/ \E e \in ReEvents, cb \in Callbacks, o \in PlainOptions : on(e, cb, o)
    \/ \E e \in ReEvents, cb \in Callbacks : off(e, cb)
    \/ \E e \in ReEvents, a \in RePayloads : emit(e, a)
    \/ \E e \in ReEvents, o \in Observers : observe(e, o)
    \/ \E e \in ReEvents, o \in Observers : unobserve(e, o)
    \/ emitListenerNext
    \/ emitObserverNext
    \/ callbackReturn
    \/ callbackThrow

SpecRe == Init /\ [][NextRe]_vars

\* rate-limited listeners under a clock: top-level calls, timers, and time passing
NextRate ==
    \/ \E e \in RateEvents, cb \in RateCallbacks, o \in RateOptions : TopLevel /\ on(e, cb, o)
    \/ \E e \in RateEvents, cb \in RateCallbacks : TopLevel /\ off(e, cb)
    \/ \E e \in RateEvents, a \in Payloads : TopLevel /\ emit(e, a)
    \/ emitListenerNext
    \/ callbackReturn
    \/ callbackThrow
    \/ timerFire
    \/ tick

SpecRate == Init /\ [][NextRate]_vars

\* edge inputs at top level: values that are not functions, throttle intervals <= 0
NextEdge ==
    \/ \E e \in RateEvents, cb \in EdgeCallbacks, o \in EdgeOptions : TopLevel /\ on(e, cb, o)
    \/ \E e \in RateEvents, cb \in EdgeCallbacks : TopLevel /\ off(e, cb)
    \/ \E e \in RateEvents, a \in RePayloads : TopLevel /\ emit(e, a)
    \/ \E e \in RateEvents, o \in EdgeObservers : TopLevel /\ observe(e, o)
    \/ \E e \in RateEvents, o \in EdgeObservers : TopLevel /\ unobserve(e, o)
    \/ emitListenerNext
    \/ emitObserverNext
    \/ callbackReturn
    \/ callbackThrow
    \/ timerFire
    \/ tick

SpecEdge == Init /\ [][NextEdge]_vars

\* top-level calls on one event with two observer functions
NextOrd ==
    \/ \E e \in ReEvents, cb \in Callbacks, o \in PlainOptions : TopLevel /\ on(e, cb, o)
    \/ \E e \in ReEvents, cb \in Callbacks : TopLevel /\ off(e, cb)
    \/ \E e \in ReEvents, a \in RePayloads : TopLevel /\ emit(e, a)
    \/ \E e \in ReEvents, o \in OrdObservers : TopLevel /\ observe(e, o)
    \/ \E e \in ReEvents, o \in OrdObservers : TopLevel /\ unobserve(e, o)
    \/ emitListenerNext
    \/ emitObserverNext
    \/ callbackReturn
    \/ callbackThrow

SpecOrd == Init /\ [][NextOrd]_vars

\* top-level calls on two instances
NextTwo ==
    \/ \E i \in Instances : enter(i)
    \/ \E e \in ReEvents, cb \in Callbacks, o \in PlainOptions : TopLevel /\ on(e, cb, o)
    \/ \E e \in ReEvents, cb \in Callbacks : TopLevel /\ off(e, cb)
    \/ \E e \in ReEvents, a \in RePayloads : TopLevel /\ emit(e, a)
    \/ \E e \in ReEvents, o \in Observers : TopLevel /\ observe(e, o)
    \/ \E e \in ReEvents, o \in Observers : TopLevel /\ unobserve(e, o)
    \/ emitListenerNext
    \/ emitObserverNext
    \/ callbackReturn
    \/ callbackThrow

SpecTwo == Init /\ [][NextTwo]_vars

\* EventUtils.doEvent, called from top level or from a callback it is running
NextUtil ==
    \/ \E event \in UtilEvents, callback \in UtilCallbacks : doEvent(event, callback)
    \/ doCallbackReturn
    \/ \E error \in UtilErrors : doCallbackThrow(error)
    \/ doCatch

SpecUtil == Init /\ [][NextUtil]_vars

\* the wrapper of EventUtils.throttle(func, Limit), called from top level as time passes
NextClock ==
    \/ \E a \in RePayloads : throttled(a)
    \/ funcReturn
    \/ funcThrow
    \/ clockTick

SpecClock == InitClock /\ [][NextClock]_vars

\* the Events module: calls from top level, events dispatched by the browser, time
NextDom ==
    \/ \E t \in DomTypes, x \in Targets, cb \in DomCallbacks, o \in AddOptions :
           add(t, x, cb, o, FALSE)
    \/ \E t \in DomTypes, x \in Targets, cb \in DomCallbacks, o \in AddOptions :
           once(t, x, cb, o)
    \/ \E t \in DomTypes, x \in Targets, cb \in DomCallbacks : remove(t, x, cb)
    \/ \E t \in DomTypes, x \in Targets : dispatchEvent(t, x)
    \/ \E t \in DomTypes : trigger(t)
    \/ \E r \in Regs : debounceFire(r)
    \/ clockTick

SpecDom == InitClock /\ [][NextDom]_vars

\* one emit call whose callbacks may call on for the same event; the engine goes on with
\* the loop, and every callback that was invoked returns or throws
NextIter ==
    \/ \E cb \in Callbacks : iterOn(cb)
    \/ iterEmit
    \/ iterNext
    \/ iterReturn
    \/ iterThrow

SpecIter == Init /\ [][NextIter]_vars /\ WF_vars(iterNext) /\ WF_vars(iterReturn \/ iterThrow)

\* the wrappers of EventUtils.debounce(func, Delay), called from top level as time passes
NextDeb ==
    \/ \E w \in Debounced, a \in Payloads : debounced(w, a)
    \/ debTimer
    \/ clockTick

SpecDeb == Init /\ [][NextDeb]_vars

\* one function behind both throttle wrappers, which are called together as time passes
NextDuo ==
    \/ duoCall
    \/ duoTimer
    \/ clockTick

SpecDuo == InitClock /\ [][NextDuo]_vars

\* ------------------------------------------------------------------ claims
\* the ids a callback was reached for, and the entries of a log about one record
Entries(log, id) == {i \in 1..Len(log) : log[i].id = id}
Invoked(log, id) == {i \in Entries(log, id) : log[i].ran}

\* the records on() created for event e that nothing has removed so far
Kept(e) == {id \in Ids : made[id].ev = e /\ gone[id] = ""}

\* C1: isolation.  When a listener's callback throws during emit(e, ...), every
\* listener registered for e after it and every observer of e is still
\* invoked in that same emission.
C1_Isolation ==
    lastEmit.thrower # 0 =>
        LET p == PosOf(lastEmit.startL, lastEmit.thrower)
        IN  /\ \A k \in (p + 1)..Len(lastEmit.startL) :
                   Invoked(lastEmit.log, lastEmit.startL[k]) # {}
            /\ \A k \in 1..Len(lastEmit.startO) :
                   \E j \in 1..Len(lastEmit.olog) : lastEmit.olog[j].o = lastEmit.startO[k]

\* C2: emit always returns normally to its caller; an exception of a listener
\* or observer callback never propagates out of emit.
C2_EmitReturns == lastEmit.outcome # "threw"

\* C3: after on(e, f) without options, one emit(e, ...args) invokes f exactly
\* once before emit ends, with exactly args: when an emit(e, args) call has
\* ended, every record made by a plain on(e, f) and not removed has exactly
\* one invocation in that call, of f, with args.
C3_OnEmitOnce ==
    lastEmit.outcome # "none" =>
        \A id \in Kept(lastEmit.ev) :
            (~made[id].l.once /\ made[id].l.throttle = 0 /\ made[id].l.debounce = 0) =>
                /\ Cardinality(Entries(lastEmit.log, id)) = 1
                /\ \A i \in Entries(lastEmit.log, id) :
                       /\ lastEmit.log[i].ran
                       /\ lastEmit.log[i].cb = made[id].l.original
                       /\ lastEmit.log[i].arg = lastEmit.arg

\* C4: after on(e, f) followed by off(e, f), no later emit(e) invokes f: no
\* emit call that runs, or has just ended, has invoked a record that off()
\* removed before the call started.
C4_OffNeverInvoked ==
    /\ \A i \in 1..Len(stack) : \A j \in 1..Len(stack[i].log) :
           gone[stack[i].log[j].id] # "off"
    /\ \A j \in 1..Len(lastEmit.log) : gone[lastEmit.log[j].id] # "off"

\* an emit(e) that invoked a listener has returned after off() removed another record of e
C4_Witness ==
    /\ lastEmit.outcome = "returned"
    /\ Len(lastEmit.log) > 0
    /\ \E id \in Ids : made[id].ev = lastEmit.ev /\ gone[id] = "off"

\* C5: after on(e, f, {once: true}), two or more top-level emit(e) calls
\* invoke f exactly once in total, on the first emit, and the record is gone
\* from the registry after that first emit: a record that the once rule
\* removed is never invoked again, and when an emit(e) call has ended every
\* once record of e (not removed by off) has left the registry, invoked once
\* by this call if the call started with it and not at all otherwise.
C5_OnceTotal ==
    /\ \A i \in 1..Len(stack) :
           stack[i].pc = "Lcb" => gone[stack[i].cur.id] # "once"
    /\ lastEmit.outcome # "none" =>
           \A id \in Ids :
               (made[id].ev = lastEmit.ev /\ made[id].l.once /\ gone[id] # "off") =>
                   /\ gone[id] = "once"
                   /\ \A e \in DOMAIN listeners : id \notin Range(Ids_of(listeners[e]))
                   /\ Cardinality(Invoked(lastEmit.log, id))
                          = IF id \in Range(lastEmit.startL) THEN 1 ELSE 0

\* C6: removal during emission.  With A then B registered for e, when A's
\* callback calls off(e, B) during emit(e), B is still invoked in that
\* emission, exactly once: every record that was registered when an emission
\* started and that off() removed during it has exactly one invocation in it.
C6_RemovalDuringEmit ==
    lastEmit.outcome = "returned" =>
        \A k \in 1..Len(lastEmit.startL) :
            gone[lastEmit.startL[k]] = "off" =>
                Cardinality(Invoked(lastEmit.log, lastEmit.startL[k])) = 1

\* C7: no dangling empty entries.  Whenever no registry operation is running,
\* every key of the listeners Map and of the observers Map maps to a
\* non-empty Set (calls made from callbacks included).
C7_NoEmptyEntries ==
    stack = <<>> =>
        /\ \A e \in DOMAIN listeners : Len(listeners[e]) > 0
        /\ \A e \in DOMAIN observers : Len(observers[e]) > 0

\* an emission whose callbacks called the registry has returned, and its key left the listeners Map
C7_Witness ==
    /\ stack = <<>>
    /\ lastEmit.outcome = "returned"
    /\ lastEmit.reent
    /\ Len(lastEmit.startL) > 0
    /\ ~MapHas(listeners, lastEmit.ev)
    /\ MapHas(observers, lastEmit.ev)

\* a listener record built with a throttle and no debounce / a debounce and no throttle
ThrottleOnly(l) == l.throttle # 0 /\ l.debounce = 0
DebounceOnly(l) == l.debounce # 0 /\ l.throttle = 0

\* C8: throttle.  For a listener registered with {throttle: T}, T > 0, an
\* emit(e) invokes f if and only if f has no leading invocation yet or T has
\* elapsed since the last one: the first emit invokes f at once, every emit
\* made before T has elapsed since that invocation does not, and the first
\* emit after T invokes f again.  (Each turn of the listeners loop adds the
\* entry of the wrapper call it made to the log of the running emit.)
C8_Throttle ==
    [][(stack # <<>> /\ stack' # <<>> /\ Len(stack'[1].log) > Len(stack[1].log)) =>
           LET en == stack'[1].log[Len(stack'[1].log)]
               l  == made[en.id].l
           IN  ThrottleOnly(l) => (en.ran <=> hist[en.id].lead >= l.throttle)]_vars

\* C9: debounce.  For a wrapper built with delay D > 0, a burst of calls
\* each made less than D after the previous one gives exactly one execution
\* of f, when the timer of the last call fires, with the arguments of that
\* last call: at any time at most one timer of the wrapper is pending, it is
\* the timer of the last call (its arguments, and its delay counted from that
\* call), and f executes only D or more after the last call, with the
\* arguments of the last call, no timer of the wrapper being left.
C9_Debounce ==
    /\ \A id \in Ids :
           DebounceOnly(made[id].l) =>
               /\ Cardinality(Pending(timers, id)) <= 1
               /\ \A i \in Pending(timers, id) :
                      /\ timers[i].arg = hist[id].arg
                      /\ timers[i].rem = Max(made[id].l.debounce - hist[id].call, 0)
    /\ \A i \in 1..Len(stack) :
           (stack[i].pc = "Tcb" /\ DebounceOnly(stack[i].cur)) =>
               /\ stack[i].arg = hist[stack[i].cur.id].arg
               /\ hist[stack[i].cur.id].call >= stack[i].cur.debounce
               /\ Pending(timers, stack[i].cur.id) = {}

\* f executes with the arguments "b" of the last call of a burst whose earlier timer was cleared
C9_Witness ==
    /\ stack # <<>>
    /\ \E i \in 1..Len(stack) :
           /\ stack[i].pc = "Tcb"
           /\ DebounceOnly(stack[i].cur)
           /\ hist[stack[i].cur.id].burst
           /\ stack[i].arg = "b"

\* C10: observers.  After observe(e, g) every emit(e, x) invokes g once with
\* x, for any number of emissions, and emission never removes an observer;
\* after unobserve(e, g) no later emit(e) invokes g.
C10_Observers ==
    /\ \A i \in 1..Len(stack) :
           stack[i].pc = "Ocb" => <<stack[i].ev, stack[i].ocur>> \notin unobserved
    /\ lastEmit.outcome # "none" =>
           /\ \A k \in 1..Len(lastEmit.startO) :
                  /\ Cardinality({j \in 1..Len(lastEmit.olog) :
                                     lastEmit.olog[j].o = lastEmit.startO[k]}) = 1
                  /\ \A j \in 1..Len(lastEmit.olog) : lastEmit.olog[j].arg = lastEmit.arg
           /\ lastEmit.startO = IF MapHas(observers, lastEmit.ev) THEN observers[lastEmit.ev] ELSE <<>>

\* C11: invalid registration.  on(e, cb) or observe(e, cb) with a cb that is
\* not a function fails at the call site and leaves both mappings as they
\* were: neither mapping ever holds a value that is not a function.
C11_InvalidRegistration ==
    /\ \A e \in DOMAIN listeners : \A i \in 1..Len(listeners[e]) :
           Callable(listeners[e][i].original)
    /\ \A e \in DOMAIN observers : \A i \in 1..Len(observers[e]) :
           Callable(observers[e][i])

\* C16: a throttle interval <= 0 is a no-op throttle.  For a listener
\* registered with throttle 0 or a negative value (and no debounce) every
\* call passes through: each emit that reaches the listener invokes f.
C16_NoOpThrottle ==
    /\ \A i \in 1..Len(stack) : \A j \in 1..Len(stack[i].log) :
           LET l == made[stack[i].log[j].id].l
           IN  (l.throttle <= 0 /\ l.debounce = 0) => stack[i].log[j].ran
    /\ \A j \in 1..Len(lastEmit.log) :
           LET l == made[lastEmit.log[j].id].l
           IN  (l.throttle <= 0 /\ l.debounce = 0) => lastEmit.log[j].ran

\* C12: duplicate listeners.  on(e, f) called twice with the same f creates
\* two independent records, so emit(e) invokes f twice (once per record the
\* emit started with); one off(e, f) removes only the first-registered of
\* them: a record is removed by off only when every earlier record of the
\* same event and callback has already left the registry.
C12_Duplicates ==
    /\ lastEmit.outcome # "none" =>
           \A cb \in Callbacks :
               LET n == Cardinality({k \in 1..Len(lastEmit.startL) :
                                        made[lastEmit.startL[k]].l.original = cb})
               IN  n >= 2 =>
                       Cardinality({i \in 1..Len(lastEmit.log) :
                                       lastEmit.log[i].cb = cb /\ lastEmit.log[i].ran}) = n
    /\ \A id \in Ids : \A id2 \in 1..(id - 1) :
           (/\ gone[id] = "off"
            /\ made[id2].ev = made[id].ev
            /\ made[id2].l.original = made[id].l.original) => gone[id2] # ""

\* C13: duplicate observers.  observe(e, g) called twice with the identical
\* function g creates a second entry, so a following emit(e, x) invokes g
\* twice.
C13_DuplicateObservers ==
    lastEmit.outcome = "returned" =>
        \A i \in 1..Len(Registered(observed, lastEmit.ev)) :
            LET r == Registered(observed, lastEmit.ev)[i]
            IN  r.dup => Cardinality({j \in 1..Len(lastEmit.olog) : lastEmit.olog[j].o = r.o}) >= 2

\* C14: not-found conditions are silent no-ops.  off(e, f) without a matching
\* record, unobserve(e, g) when g is not an observer of e, and emit(e) when
\* e has no listeners and no observers return normally, invoke no callback
\* and leave both mappings unchanged.
C14_NotFound ==
    [][((lastOp' # "none") \/ (/\ lastEmit'.outcome # "none"
                               /\ lastEmit'.startL = <<>>
                               /\ lastEmit'.startO = <<>>)) =>
           /\ listeners' = listeners
           /\ observers' = observers
           /\ Len(stack') = Len(stack)
           /\ \A i \in 1..Len(stack) : stack'[i].pc = stack[i].pc /\ stack'[i].log = stack[i].log
                                       /\ stack'[i].olog = stack[i].olog
           /\ lastEmit'.outcome \in {"none", "returned"}
           /\ lastEmit'.log = <<>> /\ lastEmit'.olog = <<>>]_vars

\* off has just returned without a match while both mappings hold entries
C14_Witness ==
    /\ lastOp = "off"
    /\ listeners # EmptyMap
    /\ observers # EmptyMap

\* a listener record built with both a throttle and a debounce
Both(l) == l.throttle # 0 /\ l.debounce # 0

\* what holds in every state of a listener with both options: emit never
\* reaches f directly, one timer at most is pending and it is the last
\* call's, and f runs from the timer only while no throttle window is open
BothState ==
    /\ \A i \in 1..Len(stack) :
           /\ \A j \in 1..Len(stack[i].log) :
                  Both(made[stack[i].log[j].id].l) => ~stack[i].log[j].ran
           /\ (stack[i].pc = "Lcb") => ~Both(stack[i].cur)
           /\ (stack[i].pc = "Tcb" /\ Both(stack[i].cur)) =>
                  /\ ~inThrottle[stack[i].cur.id]
                  /\ stack[i].arg = hist[stack[i].cur.id].arg
    /\ \A id \in Ids :
           Both(made[id].l) =>
               /\ Cardinality(Pending(timers, id)) <= 1
               /\ \A i \in Pending(timers, id) :
                      /\ timers[i].arg = hist[id].arg
                      /\ timers[i].rem = Max(made[id].l.debounce - hist[id].call, 0)

\* C15: composition order.  With both throttle T and debounce D the
\* effective callback behaves as debounce(throttle(f, T), D): each emit only
\* (re)starts the debounce timer, and when that timer fires the throttled
\* function is called, which runs f if and only if no throttle window is open.
C15_Composition ==
    [][/\ BothState
       /\ BothState'
       /\ \A i \in 1..Len(timers) :
              (/\ timers' = RemoveAt(timers, i)
               /\ timers[i].kind = "debounce"
               /\ Both(timers[i].l)) =>
                  ((stack' # <<>>) <=> ~inThrottle[timers[i].l.id])]_vars

\* the debounce timer of a listener with both options runs f with the args of the last call of a burst
C15_Witness ==
    /\ stack # <<>>
    /\ \E i \in 1..Len(stack) :
           /\ stack[i].pc = "Tcb"
           /\ Both(stack[i].cur)
           /\ hist[stack[i].cur.id].burst

\* C17: independent limiters.  Each on() call with throttle / debounce
\* options has its own wrapper state: a call of a throttled listener is
\* dropped only while that listener's own window is open (a window opened by
\* its own invocation and not yet reset by its own timer), and the timer of a
\* debounced listener's last call stays pending, with its own delay, until it
\* runs, whatever the other listeners of the event do.
C17_IndependentLimiters ==
    /\ \A i \in 1..Len(stack) : \A j \in 1..Len(stack[i].log) :
           LET en == stack[i].log[j]
           IN  (ThrottleOnly(made[en.id].l) /\ ~en.ran) => inThrottle[en.id]
    /\ \A id \in Ids :
           /\ inThrottle[id] =>
                  /\ made[id].l.throttle # 0
                  /\ \E i \in 1..Len(timers) : timers[i].kind = "throttle" /\ timers[i].l.id = id
           /\ (made[id].l.debounce # 0 /\ hist[id].arg # "") =>
                  \/ /\ Cardinality(Pending(timers, id)) = 1
                     /\ \A i \in Pending(timers, id) :
                            /\ timers[i].arg = hist[id].arg
                            /\ timers[i].rem = Max(made[id].l.debounce - hist[id].call, 0)
                  \/ /\ Pending(timers, id) = {}
                     /\ stack # <<>>
                     /\ stack[1].pc = "Tcb"
                     /\ stack[1].cur.id = id

\* a listener is invoked while the window of another listener of the same event, with the
\* same callback and interval, is open
C17_Witness ==
    /\ stack # <<>>
    /\ stack[1].pc = "Lcb"
    /\ ThrottleOnly(stack[1].cur)
    /\ \E id \in Ids :
           /\ id # stack[1].cur.id
           /\ inThrottle[id]
           /\ made[id].ev = stack[1].ev
           /\ made[id].l.original = stack[1].cur.original
           /\ made[id].l.throttle = stack[1].cur.throttle
           /\ gone[id] = ""

\* C18: dispatch order.  emit calls the listeners of its event in the order of
\* their on() calls and then its observers in the order of the observe()
\* calls that registered them, whatever on / off / observe / unobserve calls
\* came before: what an emit call has invoked so far is the leading part of
\* the registration order, and all of it once the call has returned.
C18_DispatchOrder ==
    LET InOrder(x) ==
            /\ \A i, j \in 1..Len(x.log) : i < j => x.log[i].id < x.log[j].id
            /\ \A i \in 1..Len(x.log) : x.log[i].id = x.startL[i]
            /\ Len(x.olog) <= Len(Registered(observed, x.ev))
            /\ \A i \in 1..Len(x.olog) : x.olog[i].o = Registered(observed, x.ev)[i].o
    IN  /\ \A k \in 1..Len(stack) : InOrder(stack[k])
        /\ InOrder(lastEmit)
        /\ lastEmit.outcome = "returned" =>
               /\ Len(lastEmit.log) = Len(lastEmit.startL)
               /\ Len(lastEmit.olog) = Len(Registered(observed, lastEmit.ev))

\* an emit call that returned after the listener registered second, the first one removed
\* by off, and after two observers registered in the order h, g
C18_Witness ==
    /\ lastEmit.outcome = "returned"
    /\ Len(lastEmit.log) = 1
    /\ lastEmit.log[1].id = 2
    /\ gone[1] = "off"
    /\ Len(lastEmit.olog) = 2
    /\ lastEmit.olog[1].o = "h"

\* C19: instances do not share state.  The Maps of an instance hold exactly
\* what the calls made on that instance put there and did not remove, so no
\* call on one instance changes the Maps of another, and an emit call on one
\* instance reaches only listener records and observers registered on it.
C19_Instances ==
    LET OwnL(m, i) == \A e \in DOMAIN m : \A k \in 1..Len(m[e]) :
                          /\ made[m[e][k].id].inst = i
                          /\ made[m[e][k].id].ev = e
                          /\ gone[m[e][k].id] = ""
        OwnO(m, h) == /\ DOMAIN m = DOMAIN h
                      /\ \A e \in DOMAIN m : Range(m[e]) = {r.o : r \in Range(h[e])}
        Reached(x) == /\ \A k \in 1..Len(x.log) : made[x.log[k].id].inst = this
                      /\ \A k \in 1..Len(x.olog) :
                             x.olog[k].o \in {r.o : r \in Range(Registered(observed, x.ev))}
    IN  /\ OwnL(listeners, this)
        /\ \A i \in Instances \ {this} : OwnL(rest.listeners, i)
        /\ \A id \in Ids : (made[id].ev # "" /\ gone[id] = "") =>
               LET m == IF made[id].inst = this THEN listeners ELSE rest.listeners
               IN  MapHas(m, made[id].ev) /\ id \in Range(Ids_of(m[made[id].ev]))
        /\ OwnO(observers, observed)
        /\ OwnO(rest.observers, rest.observed)
        /\ \A k \in 1..Len(stack) : Reached(stack[k])
        /\ Reached(lastEmit)

\* an emit call on instance 2 has returned after one listener and no observer, while
\* instance 1 holds a listener and an observer for the same event
C19_Witness ==
    /\ this = 2
    /\ lastEmit.outcome = "returned"
    /\ Len(lastEmit.log) = 1
    /\ lastEmit.olog = <<>>
    /\ MapHas(rest.listeners, lastEmit.ev)
    /\ MapHas(rest.observers, lastEmit.ev)

\* C20: EventUtils.doEvent(event, callback) calls callback once, with event
\* as its only argument, and never throws: whether the callback returns or
\* throws, doEvent returns normally (what was thrown goes to console.error).
C20_DoEvent ==
    /\ lastDo.outcome # "threw"
    /\ (lastDo.outcome = "returned" /\ Callable(lastDo.callback)) => lastDo.args = <<lastDo.event>>
    /\ \A k \in 1..Len(doStack) :
           Callable(doStack[k].callback) => doStack[k].args = <<doStack[k].event>>
    /\ \A k \in 1..Len(doStack) :
           doStack[k].pc = "catch" => doStack[k].error \in UtilErrors \cup {TypeError}

\* a doEvent call whose callback threw has ended, inside the callback of another doEvent call
C20_Witness ==
    /\ lastDo.outcome = "returned"
    /\ Callable(lastDo.callback)
    /\ lastDo.logged \in UtilErrors
    /\ doStack # <<>>

\* C21: EventUtils.throttle(f, L), L > 0: the first call of the wrapper
\* executes f, whatever the clock shows at that time, and a call made less
\* than L after the last executed call does not; so of any number of
\* back-to-back calls exactly the first executes f.
C21_UtilThrottle ==
    /\ tlog # <<>> => tlog[1].ran
    /\ \A i, j \in 1..Len(tlog) :
           (i < j /\ tlog[i].ran /\ tlog[j].at - tlog[i].at < Limit) => ~tlog[j].ran

\* the Events.add calls so far
Added == {r \in Regs : added[r].type # ""}
\* an Events.add call that is the only one for its type, target and callback
Sole(r) == \A q \in Added : (/\ added[q].type = added[r].type
                             /\ added[q].target = added[r].target
                             /\ added[q].callback = added[r].callback) => q = r
LiveRegs == UNION {{liveEvents[t][i].reg : i \in 1..Len(liveEvents[t])} : t \in DOMAIN liveEvents}

\* C22: Events.add then Events.remove.  Once remove(type, target, cb) was
\* called for a registration, whatever options it was added with, no
\* liveEvents record of it is left and no later dispatch of type at target
\* invokes cb; a registration that was not removed has cb invoked exactly once
\* by a dispatch (for a debounced one: has the one call scheduled).
C22_AddRemove ==
    /\ \A r \in Added : (Sole(r) /\ added[r].removed) =>
           /\ r \notin LiveRegs
           /\ \A i \in 1..Len(dlog.calls) : ~(dlog.calls[i].reg = r /\ dlog.calls[i].removed)
    /\ \A r \in Added :
           (/\ Sole(r) /\ ~added[r].removed /\ ~dlog.timer
            /\ dlog.type = added[r].type /\ dlog.target = added[r].target) =>
               IF added[r].options.debounce # 0 /\ added[r].options.throttle = 0
               THEN wrappers[r].pending
               ELSE Cardinality({i \in 1..Len(dlog.calls) : dlog.calls[i].reg = r}) = 1

\* C30: Events.once.  A listener added with Events.once is removed after its
\* first execution: however often the event is dispatched at the target, its
\* callback is invoked at most once, and once it was invoked no liveEvents
\* record of the registration is left.
C30_EventsOnce ==
    \A r \in Added : added[r].once =>
        /\ added[r].runs <= 1
        /\ added[r].runs = 1 => r \notin LiveRegs

\* C23: listener lifetime.  A record made by on(e, f) without once stays in
\* the Set of e until off(e, f) removes it, whatever emit calls run in
\* between and whatever their callbacks call, and every top-level emit(e)
\* that starts with it and has ended has invoked it.
C23_Lifetime ==
    \A id \in Ids : (made[id].ev # "" /\ ~made[id].l.once /\ gone[id] # "off") =>
        /\ MapHas(listeners, made[id].ev)
        /\ id \in Range(Ids_of(listeners[made[id].ev]))
        /\ (lastEmit.depth = 1 /\ lastEmit.ev = made[id].ev /\ id \in Range(lastEmit.startL)) =>
               Invoked(lastEmit.log, id) # {}

\* C24: a listener registered with once: true is invoked at most once, also
\* when emit(e) is called again from inside its own callback or from another
\* listener's callback of the same emission: the emit calls that are running
\* hold at most one invocation of it between them, and none once the once
\* rule has removed it.
C24_OnceNested ==
    \A id \in Ids : made[id].l.once =>
        LET Runs == {<<k, i>> \in (1..Len(stack)) \X (1..MaxListeners * MaxDepth) :
                        i \in Invoked(stack[k].log, id)}
        IN  /\ Cardinality(Runs) <= 1
            /\ gone[id] = "once" => \A k \in 1..Len(stack) : ~(stack[k].pc = "Lcb" /\ stack[k].cur.id = id)

\* C25: snapshot iteration.  An emission pass reaches exactly the listeners
\* that were registered for its event when it started: a record added by on()
\* from inside a callback is not reached by the emit calls already running,
\* and an emit call that has returned has reached every record it started with.
C25_Snapshot ==
    /\ \A k \in 1..Len(stack) : \A i \in 1..Len(stack[k].log) :
           stack[k].log[i].id \in Range(stack[k].startL)
    /\ \A i \in 1..Len(lastEmit.log) : lastEmit.log[i].id \in Range(lastEmit.startL)
    /\ lastEmit.outcome = "returned" =>
           \A i \in 1..Len(lastEmit.startL) : Entries(lastEmit.log, lastEmit.startL[i]) # {}

\* C26: once-cleanup survives failures.  When an emit(e) call in which a
\* listener threw is over, every once listener it invoked, the throwing one
\* included, is out of the registry, and e has no empty Set.
C26_OnceCleanup ==
    (lastEmit.thrower # 0 /\ lastEmit.depth = 1) =>
        /\ \A i \in 1..Len(lastEmit.log) :
               (lastEmit.log[i].ran /\ made[lastEmit.log[i].id].l.once) =>
                   \A e \in DOMAIN listeners :
                       lastEmit.log[i].id \notin Range(Ids_of(listeners[e]))
        /\ MapHas(listeners, lastEmit.ev) => Len(listeners[lastEmit.ev]) > 0

\* C27: throttle drops, never defers, never restarts.  For a listener with a
\* throttle and no debounce: no timer ever runs f (a dropped call is not
\* executed later), and while its window is open exactly one reset timer is
\* pending, due T after the leading invocation, however many calls were
\* dropped since; no timer is pending while the window is closed.
C27_ThrottleDrops ==
    \A id \in Ids : ThrottleOnly(made[id].l) =>
        LET Own == {i \in 1..Len(timers) : timers[i].l.id = id}
        IN  /\ \A i \in Own : timers[i].kind = "throttle"
            /\ \A k \in 1..Len(stack) : ~(stack[k].pc = "Tcb" /\ stack[k].cur.id = id)
            /\ Cardinality(Own) = IF inThrottle[id] THEN 1 ELSE 0
            /\ \A i \in Own : timers[i].rem = Max(made[id].l.throttle - hist[id].lead, 0)

\* a call of a throttled listener has just been dropped, after part of the interval has
\* passed since the leading invocation
C27_Witness ==
    /\ stack # <<>>
    /\ Len(stack[1].log) > 0
    /\ LET en == stack[1].log[Len(stack[1].log)]
       IN  /\ ThrottleOnly(made[en.id].l)
           /\ ~en.ran
           /\ inThrottle[en.id]
           /\ hist[en.id].lead > 0
           /\ hist[en.id].lead < made[en.id].l.throttle

\* C28: pass ordering.  Within one emit(e, ...args) every listener invocation
\* comes before the first observer invocation, and observers get the same
\* args as the listeners: once an emit call has reached an observer, it has
\* reached every listener it started with and reaches no further one, and
\* every entry of both passes carries the args of the call.
C28_PassOrder ==
    LET Ordered(x) ==
            /\ x.olog # <<>> =>
                   /\ Len(x.log) = Len(x.startL)
                   /\ \A i \in 1..Len(x.startL) : Entries(x.log, x.startL[i]) # {}
            /\ \A i \in 1..Len(x.log) : x.log[i].arg = x.arg
            /\ \A i \in 1..Len(x.olog) : x.olog[i].arg = x.arg
    IN  /\ \A k \in 1..Len(stack) : Ordered(stack[k])
        /\ Ordered(lastEmit)

\* an observer is running in an emit call that has invoked two listeners, with args b
C28_Witness ==
    /\ stack # <<>>
    /\ stack[1].pc = "Ocb"
    /\ stack[1].arg = "b"
    /\ Len(stack[1].log) = 2
    /\ \A i \in 1..2 : stack[1].log[i].ran

\* C29: the removal key is the original callback.  For a listener registered
\* with on(e, f, opts), opts setting throttle and / or debounce, off(e, f)
\* removes the first-registered record of f from the Set of e, and no emit(e)
\* call made afterwards makes a wrapper call for that record.
C29_RemovalKey ==
    [][/\ \A e \in RateEvents, cb \in RateCallbacks :
              (off(e, cb) /\ MapHas(listeners, e)) =>
                  LET S == listeners[e]
                      I == {i \in 1..Len(S) : S[i].original = cb}
                  IN  I # {} =>
                          LET p == CHOOSE i \in I : \A j \in I : i <= j
                          IN  /\ \A e2 \in DOMAIN listeners' :
                                     S[p].id \notin Range(Ids_of(listeners'[e2]))
                              /\ gone'[S[p].id] = "off"
       /\ \A id \in Ids : gone'[id] = "off" =>
              /\ \A e2 \in DOMAIN listeners' : id \notin Range(Ids_of(listeners'[e2]))
              /\ \A k \in 1..Len(stack') : Entries(stack'[k].log, id) = {}
              /\ Entries(lastEmit'.log, id) = {}]_vars

\* an emit call has ended that made a wrapper call for one rate-limited listener, after
\* off removed another one that had its throttle window open
C29_Witness ==
    /\ lastEmit.outcome = "returned"
    /\ Len(lastEmit.log) > 0
    /\ \E id \in Ids : /\ gone[id] = "off"
                       /\ made[id].l.throttle # 0
                       /\ inThrottle[id]
                       /\ made[id].ev = lastEmit.ev

\* C31: Events.trigger(type) invokes the callback of every listener currently
\* registered for that type through Events.add: after a trigger, every entry of
\* liveEvents for the type with a plain handler has one call in the trigger's log.
C31_Trigger ==
    dlog.trigger =>
        \A r \in LiveRegs :
            (added[r].type = dlog.type /\ makeHandler(added[r].callback, added[r].options, r).wrap = "none") =>
                \E i \in 1..Len(dlog.calls) : dlog.calls[i].reg = r

\* C32: emit terminates.  If every callback invocation returns or throws, an
\* emit call that has entered its listeners loop ends (returns or throws) after
\* finitely many callback invocations, also when the callbacks call on for the
\* same event during the emission.
C32_EmitTerminates == (iter.pc = "L") ~> (iter.pc = "done")

\* C33: throttle and a throwing callback (EventUtils.throttle(f, T)).  When a
\* call of the wrapper executes f and f throws, the window is opened all the
\* same: lastCall is the time of that call, and no call made less than T after
\* it executes f.
C33_ThrowOpensWindow ==
    /\ \A i, j \in 1..Len(tlog) :
           (i < j /\ tlog[i].ran /\ tlog[i].threw /\ tlog[j].at - tlog[i].at < Limit) => ~tlog[j].ran
    /\ \A i \in 1..Len(tlog) : (tlog[i].ran /\ tlog[i].threw) => lastCall >= tlog[i].at

\* f has thrown in a call that executed it, a later call inside the window was dropped,
\* and a call after the window executed f again
C33_Witness ==
    \E i, j, k \in 1..Len(tlog) :
        /\ i < j /\ j < k
        /\ tlog[i].ran /\ tlog[i].threw
        /\ tlog[j].at - tlog[i].at < Limit /\ ~tlog[j].ran
        /\ tlog[k].at - tlog[i].at >= Limit /\ tlog[k].ran

\* the pending timers of one debounce wrapper
DebPending(w) == {i \in 1..Len(deb.timers) : deb.timers[i].w = w}

\* C34: each wrapper of EventUtils.debounce has at most one pending timer at
\* any time, the one its timeoutId names; a timer that a later call cancelled
\* never executes f, and f is executed no more often than the wrapper is
\* called.
C34_OnePending ==
    /\ \A w \in Debounced :
           /\ Cardinality(DebPending(w)) <= 1
           /\ \A i \in DebPending(w) : deb.timers[i].id = deb.timeoutId[w]
           /\ deb.runs[w] <= deb.calls[w]
    /\ deb.cleared \cap deb.ran = {}

\* a wrapper was called while its timer was pending, its later timer has run, and it was
\* called again and has a timer pending
C34_Witness ==
    \E w \in Debounced :
        /\ deb.calls[w] >= 3
        /\ deb.runs[w] >= 1
        /\ deb.cleared # {}
        /\ DebPending(w) # {}

\* C35: the two throttle implementations are equivalent.  For every sequence
\* of call times, with a function that neither throws nor calls the wrapper
\* and an interval L > 0, EventUtils.throttle(f, L) and EventFlow._throttle(f, L)
\* execute f on exactly the same calls.
C35_Equivalent ==
    \A i \in 1..Len(duo.log) : duo.log[i].stamped = duo.log[i].flagged

====
